---------------------------- MODULE Spec2Model ----------------------------
(***************************************************************************)
(* Model of src/merkle_tree.rs: a Merkle tree built bottom-up over an      *)
(* ordered sequence of byte strings, with inclusion proofs by leaf index.  *)
(*                                                                         *)
(* Byte strings are sequences.  SHA3-256 is modelled as a collision-free   *)
(* hash: the 32 bytes of a digest are one symbol that records the message  *)
(* that was hashed, so two digests are equal exactly when their messages   *)
(* are.  Items are byte strings shorter than two digests, so a leaf        *)
(* message never equals the concatenation of two child digests.            *)
(*                                                                         *)
(* Option<T> is a sequence of length 0 (None) or 1 (Some).                 *)
(***************************************************************************)
EXTENDS Integers, Sequences, FiniteSets

\* ------------------------------------------------------------------ bounds

\* longest input sequence given to build
MaxLen == 7

\* stack frames available to the recursion of _build_up
StackLimit == 6

\* the byte strings the items are drawn from
ItemValues == { <<1>>, <<2>> }

\* the tag bytes appended to a proof entry: 'l' as u8, 'r' as u8
TagL == 108
TagR == 114

None == << >>
Some(x) == << x >>

\* ------------------------------------------------------------------- state

VARIABLES
    items,    \* the argument of build
    pc,       \* "start", "build_up", "built", "aborted", "panicked"
    size,     \* build's local `size`, then MerkleTree.size
    nodes,    \* the argument of the current call of _build_up
    depth,    \* number of _build_up frames below the current one
    root,     \* Option: MerkleTree.root once build has returned
    index,    \* Option: the argument of the last get_proof
    result,   \* Option<Option<path>>: what the last get_proof returned
    node,     \* Option: get_proof's local `node` when its descent ended
    vitem,    \* the item last given to verify
    vproof,   \* the proof last given to verify
    vroot,    \* the expected root last given to verify
    verdict   \* Option<BOOLEAN>: what the last verify returned

vars == << items, pc, size, nodes, depth, root, index, result, node,
           vitem, vproof, vroot, verdict >>

\* ------------------------------------------------------------------ hashes

\* fn _sha3(input): the digest of one message
_sha3(input) == << [pre |-> input] >>

\* fn _sha3_leaves(a, b): the digest of the two inputs fed one after the other
_sha3_leaves(leaf_hash_1, leaf_hash_2) == _sha3(leaf_hash_1 \o leaf_hash_2)

\* ------------------------------------------------------------------- nodes

new_leaf(hash) == [left |-> None, right |-> None, hash |-> hash]

new_internal(hash, left, right) ==
    [left |-> Some(left), right |-> Some(right), hash |-> hash]

\* ------------------------------------------------------------------- build

\* build, lines 64-68: one leaf per item, in order
Leaves(its) == [j \in 1..Len(its) |-> new_leaf(_sha3(its[j]))]

\* Pad that leaves an odd level as it is
PadNothing(ns) == ns

\* Pad with a clone of the first node of the level instead of the last
PadWithFirst(ns) == IF Len(ns) % 2 = 1 THEN Append(ns, ns[1]) ELSE ns

\* _build_up, lines 83-86: an odd level gets a clone of its last node
Pad(ns) == IF Len(ns) % 2 = 1 THEN Append(ns, ns[Len(ns)]) ELSE ns

\* _build_up, lines 90-97: nodes[i + 1] is out of range when the loop meets
\* a last node that has no partner
PairingPanics(ns) == Len(ns) % 2 = 1

\* Parents with the two child digests hashed right-then-left
ParentsSwapped(ns) ==
    [j \in 1..(Len(ns) \div 2) |->
        new_internal(_sha3_leaves(ns[2 * j].hash, ns[2 * j - 1].hash),
                     ns[2 * j - 1], ns[2 * j])]

\* _build_up, lines 88-97: one parent per consecutive pair
Parents(ns) ==
    [j \in 1..(Len(ns) \div 2) |->
        LET left_child  == ns[2 * j - 1]
            right_child == ns[2 * j]
        IN  new_internal(_sha3_leaves(left_child.hash, right_child.hash),
                         left_child, right_child)]

\* _build_up as a function, for a level that is not empty
RECURSIVE _build_up(_)
_build_up(ns) ==
    IF Len(ns) = 1 THEN ns ELSE _build_up(Parents(Pad(ns)))

\* build as a function, for a sequence that is not empty
build(its) == [root |-> _build_up(Leaves(its))[1], size |-> Len(its)]

\* --------------------------------------------------------------- get_proof

RECURSIVE Pow2(_)
Pow2(e) == IF e = 0 THEN 1 ELSE 2 * Pow2(e - 1)

\* (size as f64).log2().ceil(): the least e with 2^e >= size (size >= 1;
\* the sizes here are far below 2^53 and log2 is exact on powers of two)
RECURSIVE CeilLog2From(_, _)
CeilLog2From(n, e) == IF Pow2(e) >= n THEN e ELSE CeilLog2From(n, e + 1)
CeilLog2(n) == CeilLog2From(n, 0)

\* LevelSize with floor() in place of ceil()
LevelSizeFloor(sz) ==
    IF Pow2(CeilLog2(sz)) = sz THEN sz ELSE Pow2(CeilLog2(sz) - 1)

\* line 109
LevelSize(sz) == Pow2(CeilLog2(sz))

\* OutOfRange against the padded width of the leaf level
OutOfRangePadded(idx, sz) == idx >= LevelSize(sz)

\* line 107
OutOfRange(idx, sz) == idx >= sz

Reverse(s) == [j \in 1..Len(s) |-> s[Len(s) + 1 - j]]

\* DirectionBits that also records the bit of position 1
RECURSIVE DirectionBitsToRoot(_)
DirectionBitsToRoot(position) ==
    IF position >= 1
    THEN << position % 2 >> \o DirectionBitsToRoot(position \div 2)
    ELSE << >>

\* lines 113-117: the bits of position, lowest first, down to position 1
RECURSIVE DirectionBits(_)
DirectionBits(position) ==
    IF position >= 2
    THEN << position % 2 >> \o DirectionBits(position \div 2)
    ELSE << >>

\* Directions without the reversal of lines 119-124
DirectionsLeafFirst(sz, idx) == DirectionBits(LevelSize(sz) + idx)

\* lines 109-124
Directions(sz, idx) == Reverse(DirectionBits(LevelSize(sz) + idx))

\* Descend with the two side tags exchanged
RECURSIVE DescendTagsSwapped(_, _, _)
DescendTagsSwapped(n, directions, path) ==
    IF directions = << >>
    THEN [panic |-> FALSE, path |-> path, node |-> n]
    ELSE IF n.left = None \/ n.right = None
    THEN [panic |-> TRUE, path |-> path, node |-> n]
    ELSE IF Head(directions) = 1
    THEN DescendTagsSwapped(n.right[1], Tail(directions),
                            Append(path, Append(n.left[1].hash, TagR)))
    ELSE DescendTagsSwapped(n.left[1], Tail(directions),
                            Append(path, Append(n.right[1].hash, TagL)))

\* lines 130-142: the descent; unwrap on an absent child panics
RECURSIVE Descend(_, _, _)
Descend(n, directions, path) ==
    IF directions = << >>
    THEN [panic |-> FALSE, path |-> path, node |-> n]
    ELSE IF n.left = None \/ n.right = None
    THEN [panic |-> TRUE, path |-> path, node |-> n]
    ELSE IF Head(directions) = 1
    THEN Descend(n.right[1], Tail(directions),
                 Append(path, Append(n.left[1].hash, TagL)))
    ELSE Descend(n.left[1], Tail(directions),
                 Append(path, Append(n.right[1].hash, TagR)))

\* lines 109-147 for index < size
ProofWalk(tree, idx) == Descend(tree.root, Directions(tree.size, idx), << >>)

\* ProofPath without the reversal
ProofPathRootFirst(path) == path

\* lines 144-147: the path is reversed, the leaf's sibling comes first
ProofPath(path) == Reverse(path)

\* get_proof as a function, when the descent does not panic
get_proof(tree, idx) ==
    IF OutOfRange(idx, tree.size)
    THEN None
    ELSE Some(ProofPath(ProofWalk(tree, idx).path))

\* ------------------------------------------------------------------ verify

\* section 4.4: fold the proof over the leaf digest
RECURSIVE Fold(_, _)
Fold(current, proof) ==
    IF proof = << >> THEN current
    ELSE LET entry        == Head(proof)
             sibling_hash == SubSeq(entry, 1, Len(entry) - 1)
             side         == entry[Len(entry)]
         IN  Fold(IF side = TagL THEN _sha3_leaves(sibling_hash, current)
                                 ELSE _sha3_leaves(current, sibling_hash),
                  Tail(proof))

verify(item, idx, tree_size, proof, expected_root) ==
    Fold(_sha3(item), proof) = expected_root

\* ----------------------------------------------------------------- actions

ItemSeqs == UNION { [1..n -> ItemValues] : n \in 0..MaxLen }

Init ==
    /\ items \in ItemSeqs
    /\ pc = "start"
    /\ size = 0
    /\ nodes = << >>
    /\ depth = 0
    /\ root = None
    /\ index = None
    /\ result = None
    /\ node = None
    /\ vitem = << >>
    /\ vproof = << >>
    /\ vroot = << >>
    /\ verdict = None

NoVerify == vitem' = << >> /\ vproof' = << >> /\ vroot' = << >> /\ verdict' = None

\* build, lines 64-71: hash the items and enter _build_up
Build ==
    /\ pc = "start"
    /\ nodes' = Leaves(items)
    /\ size' = Len(items)
    /\ depth' = 0
    /\ pc' = "build_up"
    /\ UNCHANGED << items, root, index, result, node,
                    vitem, vproof, vroot, verdict >>

\* _build_up, line 81, and build, lines 71-76: the level of one node is
\* returned through every frame and its node becomes the root
BuildUpReturn ==
    /\ pc = "build_up"
    /\ Len(nodes) = 1
    /\ root' = Some(nodes[1])
    /\ pc' = "built"
    /\ UNCHANGED << items, size, nodes, depth, index, result, node,
                    vitem, vproof, vroot, verdict >>

\* _build_up, lines 83-99: pad, pair, and call _build_up on the parents
BuildUpRecurse ==
    /\ pc = "build_up"
    /\ Len(nodes) # 1
    /\ depth < StackLimit
    /\ LET padded == Pad(nodes)
       IN  IF PairingPanics(padded)
           THEN pc' = "panicked" /\ UNCHANGED << nodes, depth >>
           ELSE /\ nodes' = Parents(padded)
                /\ depth' = depth + 1
                /\ pc' = "build_up"
    /\ UNCHANGED << items, size, root, index, result, node,
                    vitem, vproof, vroot, verdict >>

\* _build_up, line 99: no frame is left for the next call; the process aborts
StackOverflow ==
    /\ pc = "build_up"
    /\ Len(nodes) # 1
    /\ depth = StackLimit
    /\ pc' = "aborted"
    /\ UNCHANGED << items, size, nodes, depth, root, index, result, node,
                    vitem, vproof, vroot, verdict >>

Tree == [root |-> root[1], size |-> size]

\* get_proof, lines 106-150; the caller asks for proofs until it checks one
GetProof ==
    /\ pc = "built"
    /\ verdict = None
    /\ \E idx \in 0..(MaxLen + 1) :
          /\ index' = Some(idx)
          /\ IF OutOfRange(idx, size)
             THEN /\ result' = Some(None)
                  /\ node' = None
                  /\ pc' = pc
             ELSE LET w == ProofWalk(Tree, idx)
                  IN  IF w.panic
                      THEN /\ result' = None
                           /\ node' = Some(w.node)
                           /\ pc' = "panicked"
                      ELSE /\ result' = Some(Some(ProofPath(w.path)))
                           /\ node' = Some(w.node)
                           /\ pc' = pc
    /\ NoVerify
    /\ UNCHANGED << items, size, nodes, depth, root >>

\* get_proof returned a proof that has not been given to verify
HasProof ==
    pc = "built" /\ result # None /\ result[1] # None /\ verdict = None
Proof == result[1][1]

\* the running digest of the fold before entry k of the proof
Running(item, proof, k) == Fold(_sha3(item), SubSeq(proof, 1, k - 1))

\* the digests a forged value is drawn from
Digests ==
    { _sha3(v) : v \in ItemValues } \cup { root[1].hash }
    \cup { SubSeq(Proof[k], 1, Len(Proof[k]) - 1) : k \in 1..Len(Proof) }
    \cup { Running(items[index[1] + 1], Proof, k) : k \in 1..Len(Proof) }

Verified(item, proof, expected) ==
    /\ vitem' = item
    /\ vproof' = proof
    /\ vroot' = expected
    /\ verdict' = Some(verify(item, index[1], size, proof, expected))
    /\ UNCHANGED << items, pc, size, nodes, depth, root, index, result, node >>

\* verify on what the tree gave
VerifyHonest ==
    /\ HasProof
    /\ Verified(items[index[1] + 1], Proof, root[1].hash)

\* verify with another item
VerifyItem ==
    /\ HasProof
    /\ \E v \in ItemValues \ { items[index[1] + 1] } :
          Verified(v, Proof, root[1].hash)

\* verify with one proof entry changed: its digest, its side tag, or both
VerifyEntry ==
    /\ HasProof
    /\ \E k \in 1..Len(Proof) :
       \E d \in Digests, t \in { TagL, TagR } :
          /\ Append(d, t) # Proof[k]
          /\ Verified(items[index[1] + 1],
                      [Proof EXCEPT ![k] = Append(d, t)], root[1].hash)

\* verify with another expected root
VerifyRoot ==
    /\ HasProof
    /\ \E d \in Digests \ { root[1].hash } :
          Verified(items[index[1] + 1], Proof, d)

Next ==
    \/ Build
    \/ BuildUpReturn
    \/ BuildUpRecurse
    \/ StackOverflow
    \/ GetProof
    \/ VerifyHonest
    \/ VerifyItem
    \/ VerifyEntry
    \/ VerifyRoot

Spec == Init /\ [][Next]_vars

\* build runs on one thread with nothing to wait for: a call of _build_up
\* that can take its next step takes it
FairSpec ==
    Spec /\ WF_vars(Build) /\ WF_vars(BuildUpReturn) /\ WF_vars(BuildUpRecurse)

\* ------------------------------------------------------------- definitions
\* used by the properties

IsLeaf(n) == n.left = None /\ n.right = None

\* the digests of the leaves under n, left to right
RECURSIVE LeafHashes(_)
LeafHashes(n) ==
    IF IsLeaf(n) THEN << n.hash >>
    ELSE LeafHashes(n.left[1]) \o LeafHashes(n.right[1])

\* every node under n has no child or two, and every leaf is h edges down
RECURSIVE Perfect(_, _)
Perfect(n, h) ==
    IF h = 0 THEN IsLeaf(n)
    ELSE /\ n.left # None
         /\ n.right # None
         /\ Perfect(n.left[1], h - 1)
         /\ Perfect(n.right[1], h - 1)

\* the reference reduction over digests: a level, padded by repeating its
\* last digest when its length is odd
RefPad(level) ==
    IF Len(level) % 2 = 1 THEN Append(level, level[Len(level)]) ELSE level

RefNext(level) ==
    LET padded == RefPad(level)
    IN  [j \in 1..(Len(padded) \div 2) |->
            _sha3_leaves(padded[2 * j - 1], padded[2 * j])]

RECURSIVE RefLevel(_, _)
RefLevel(its, k) ==
    IF k = 0 THEN [j \in 1..Len(its) |-> _sha3(its[j])]
    ELSE RefNext(RefLevel(its, k - 1))

RECURSIVE RefReduce(_)
RefReduce(level) ==
    IF Len(level) = 1 THEN level[1] ELSE RefReduce(RefNext(level))

RefRoot(its) == RefReduce(RefLevel(its, 0))

\* entry k (from 0) of the reference proof of leaf idx
RefEntry(its, idx, k) ==
    LET ancestor == idx \div Pow2(k)
        sibling  == IF ancestor % 2 = 1 THEN ancestor - 1 ELSE ancestor + 1
    IN  Append(RefPad(RefLevel(its, k))[sibling + 1],
               IF ancestor % 2 = 1 THEN TagL ELSE TagR)

RefProof(its, idx) ==
    [k \in 1..CeilLog2(Len(its)) |-> RefEntry(its, idx, k - 1)]

\* get_proof was called with an index below size
Asked == index # None /\ index[1] < Len(items)

\* verify has returned
Checked == pc = "built" /\ verdict # None

Item == items[index[1] + 1]
RootHash == root[1].hash

\* -------------------------------------------------------------- properties

\* C1: every index below size gets a proof, and folding that proof over the
\* digest of the item at that index gives the root digest: verify on the
\* item, its proof and the tree's root returns true.
C1_RoundTrip ==
    /\ Asked => pc = "built" /\ result # None /\ result[1] # None
    /\ (Checked /\ vitem = Item /\ vproof = Proof /\ vroot = RootHash)
           => verdict = Some(TRUE)

\* C1 witness: five items, the last one proved (its sibling is the padding
\* duplicate), and the round trip succeeded
C1_Witness ==
    /\ Checked /\ Len(items) = 5 /\ index = Some(4)
    /\ vitem = Item /\ vproof = Proof /\ vroot = RootHash
    /\ Len(Proof) = 3
    /\ verdict = Some(TRUE)

\* C2: build on an empty sequence ends with an EmptyInputError and no tree.
C2_EmptyInputError ==
    (Len(items) = 0 /\ pc \notin { "start", "build_up" })
        => pc = "EmptyInputError" /\ root = None

\* what verify was given differs from what the tree gave
Tampered ==
    Checked /\ (vitem # Item \/ vproof # Proof \/ vroot # RootHash)

\* the only change is the side tag of an entry whose sibling digest is the
\* digest the fold holds when it reaches that entry
SideOfEqualPair ==
    /\ vitem = Item
    /\ vroot = RootHash
    /\ \E k \in 1..Len(Proof) :
          /\ vproof = [Proof EXCEPT ![k][Len(Proof[k])] =
                         IF Proof[k][Len(Proof[k])] = TagL THEN TagR ELSE TagL]
          /\ SubSeq(Proof[k], 1, Len(Proof[k]) - 1) = Running(Item, Proof, k)

\* C3 as stated: whatever is changed (the item, one proof entry, the
\* expected root), verify returns false.
C3_TamperDetected == Tampered => verdict = Some(FALSE)

\* C3 amended: verify returns false on every such change except the change
\* of the side tag alone of an entry whose sibling digest equals the digest
\* being folded; there it returns true.
C3_TamperDetectedUnlessEqualPair ==
    Tampered => verdict = Some(SideOfEqualPair)

\* C3 witness: a three-item tree, the proof of index 1 with the digest of
\* its first entry replaced, rejected
C3_Witness ==
    /\ Tampered /\ Len(items) = 3 /\ index = Some(1)
    /\ vitem = Item /\ vroot = RootHash
    /\ vproof[1] # Proof[1] /\ vproof[2] = Proof[2]
    /\ vproof[1][Len(vproof[1])] = Proof[1][Len(Proof[1])]
    /\ verdict = Some(FALSE)

\* C4: size is the number of input items, and get_proof returns None exactly
\* for an index at or above it.
C4_SizeAndRange ==
    /\ pc = "built" => size = Len(items)
    /\ (index # None /\ pc \in { "built", "panicked" }) =>
          /\ result # None
          /\ (result[1] = None) <=> (index[1] >= Len(items))

\* C4 witness: index 3 of a three-item tree, which addresses only the
\* padding duplicate, is absent
C4_Witness ==
    /\ pc = "built" /\ Len(items) = 3 /\ size = 3
    /\ index = Some(3) /\ result = Some(None)

\* C5: the proof of a valid index is the reference proof: ceil(log2(size))
\* entries, entry k the digest of the sibling of the level-k ancestor of the
\* leaf, tagged 'l' when bit k of the index is 1 and 'r' when it is 0.
C5_ReferenceProof ==
    Asked =>
        /\ result # None /\ result[1] # None
        /\ Proof = RefProof(items, index[1])
        /\ (Len(Proof) = 0) <=> (Len(items) = 1)

\* C5 witness: the proof of index 5 of a seven-item tree has three entries
C5_Witness ==
    /\ pc = "built" /\ Len(items) = 7 /\ index = Some(5)
    /\ result # None /\ result[1] # None
    /\ Len(Proof) = 3
    /\ Proof[1][Len(Proof[1])] = TagL /\ Proof[2][Len(Proof[2])] = TagR

\* C6: the root digest is the result of the reference reduction of the leaf
\* digests, and for one item it is the digest of that item.
C6_ReferenceRoot ==
    pc = "built" =>
        /\ root # None
        /\ RootHash = RefRoot(items)
        /\ Len(items) = 1 => RootHash = _sha3(items[1]) /\ IsLeaf(root[1])

\* C6 witness: a five-item tree, padded on two levels, has been built
C6_Witness ==
    pc = "built" /\ Len(items) = 5 /\ index = None /\ ~IsLeaf(root[1])

\* a round of _build_up on more than one node
RoundShrinks ==
    (pc = "build_up" /\ Len(nodes) > 1) =>
        /\ Len(Pad(nodes)) % 2 = 0
        /\ pc' = "build_up"
        /\ 2 * Len(nodes') = Len(Pad(nodes))
        /\ 1 <= Len(nodes') /\ Len(nodes') < Len(nodes)

\* the call of _build_up on one node
OneNodeIsRoot ==
    (pc = "build_up" /\ Len(nodes) = 1) =>
        pc' = "built" /\ root' = Some(nodes[1])

\* C7: build on a sequence that is not empty terminates: a round on more
\* than one node pads the level to an even length and replaces it by a
\* strictly shorter level that is not empty, a level of one node becomes
\* the root, and the call reaches its end.
C7_Terminates ==
    /\ [][RoundShrinks /\ OneNodeIsRoot]_vars
    /\ (Len(items) >= 1) ~> (pc = "built")

\* C7 witness: the third round of a build of seven items, on two nodes
C7_Witness ==
    pc = "build_up" /\ Len(items) = 7 /\ depth = 2 /\ Len(nodes) = 2

\* C8: a built tree is perfect with height ceil(log2(size)), so it has as
\* many leaves as the smallest power of two >= size, the level_size of
\* get_proof.
C8_Height ==
    pc = "built" =>
        /\ Perfect(root[1], CeilLog2(size))
        /\ Len(LeafHashes(root[1])) = LevelSize(size)
        /\ LevelSize(size) >= size
        /\ LevelSize(size) < 2 * size

\* C8 witness: a five-item tree of height 3 with 8 leaves
C8_Witness ==
    /\ pc = "built" /\ size = 5
    /\ Perfect(root[1], 3) /\ Len(LeafHashes(root[1])) = 8

\* C9: the descent of get_proof for an index below size never meets a
\* missing child and ends on a childless node whose digest is the digest of
\* the item at that index; the first `size` leaves are the items in order.
C9_Descent ==
    /\ pc # "panicked"
    /\ Asked =>
          /\ node # None
          /\ IsLeaf(node[1])
          /\ node[1].hash = _sha3(Item)
          /\ result # None /\ result[1] # None
          /\ Len(Proof) = Len(Directions(size, index[1]))
    /\ pc = "built" =>
          SubSeq(LeafHashes(root[1]), 1, size) =
              [j \in 1..Len(items) |-> _sha3(items[j])]

\* C9 witness: the descent to the last leaf of a six-item tree
C9_Witness ==
    /\ pc = "built" /\ Len(items) = 6 /\ index = Some(5)
    /\ node # None /\ IsLeaf(node[1]) /\ Len(Proof) = 3

\* C10: for an odd number n > 1 of items, the tree of the items with the
\* last one appended once more has the same root digest, a size of n + 1,
\* and the same proof for index n - 1.
C10_SameRoot ==
    (pc = "built" /\ Len(items) % 2 = 1 /\ Len(items) > 1) =>
        LET n     == Len(items)
            other == build(Append(items, items[n]))
        IN  /\ other.root.hash = RootHash
            /\ other.size = n + 1 /\ size = n
            /\ get_proof(other, n - 1) = get_proof(Tree, n - 1)
            /\ (index = Some(n - 1)) => result = Some(get_proof(other, n - 1))

\* C10 witness: the proof of index 2 of a three-item tree whose items differ
C10_Witness ==
    /\ pc = "built" /\ Len(items) = 3 /\ items[2] # items[3]
    /\ index = Some(2) /\ result # None /\ result[1] # None

=============================================================================
